---- MODULE Spec2Model ----
(***************************************************************************)
(* Verification model of the cosdata proximity-graph index                 *)
(* (src/vector_store.rs) and of the quantized-storage serializer           *)
(* (src/models/serializer/storage.rs).                                     *)
(*                                                                         *)
(* Similarities are kept in fixed point (hundredths).  Every embedding of  *)
(* the model has integer magnitude 5, so dot / (|a| * |b|) is exact in     *)
(* hundredths and the order and the ties of the f32 values are preserved.  *)
(*                                                                         *)
(* The node cache (DashMap) is a map from the keys present to their        *)
(* entries, with atomic get / insert / alter on one key; a get returns a   *)
(* snapshot of the entry.                                                  *)
(***************************************************************************)
EXTENDS Integers, Sequences, FiniteSets, TLC

\* ------------------------------------------------------------------ bounds
\* number of insert_embedding calls
MaxInserts == 3
\* number of calls of the first wave, which run concurrently; a later call is
\* started when no call is running
MaxRunning == 2
\* highest level of the graph: levels are 0..MaxLevel
MaxLevel == 1

\* ------------------------------------------------------- program constants
\* fan-out of a neighbor list: take(2) in insert_node_create_edges
M == 2
\* size of a traversal result: take(2) in traverse_find_nearest_inner
K_search == 2
\* hop limit of a traversal: `if hops < 4`
MaxHops == 4

\* ------------------------------------------------------------- embeddings
\* id 0 is the root; ids 1..MaxInserts are the embeddings the concurrent
\* calls insert; the last five ids are five embeddings whose similarities,
\* to each other and to the root, are all different.
Root == 0
\* raw_vec of every id (hash_vec = id): integer vectors of integer magnitude
Vecs == << <<5, 0>>, <<4, 3>>, <<4, -3>>, <<3, 4>>,
           <<-3, 4>>, <<24, 7>>, <<21, 20>>, <<3, -4>>, <<0, -5>> >>
Ids == 0..(Len(Vecs) - 1)
FiveIds == (Len(Vecs) - 5)..(Len(Vecs) - 1)
Levels == 0..MaxLevel
raw_vec(id) == Vecs[id + 1]

RECURSIVE SumSeq(_)
SumSeq(s) == IF s = <<>> THEN 0 ELSE Head(s) + SumSeq(Tail(s))

\* a.iter().zip(b.iter()).map(|(&x, &y)| x * y).sum()
dot_product(a, b) ==
    LET n == IF Len(a) < Len(b) THEN Len(a) ELSE Len(b)
    IN  SumSeq([k \in 1..n |-> a[k] * b[k]])

\* integer square root (exact on the magnitudes of the model)
Sqrt(n) == CHOOSE r \in 0..n : r * r <= n /\ (r + 1) * (r + 1) > n

\* vec.iter().map(|&x| x * x).sum::<f32>().sqrt()
magnitude(v) == Sqrt(dot_product(v, v))

\* dot_product(a, b) / (magnitude(a) * magnitude(b)), in hundredths
cosine_similarity(a, b) == (100 * dot_product(a, b)) \div (magnitude(a) * magnitude(b))

\* ------------------------------------------------------- list operations
\* entries of neighbor lists and results are pairs <<id, similarity>>

\* position after the leading entries whose similarity is >= s
Rank(lst, s) == Cardinality({k \in 1..Len(lst) : lst[k][2] >= s})

InsertSorted(lst, x) ==
    LET k == Rank(lst, x[2])
    IN  SubSeq(lst, 1, k) \o <<x>> \o SubSeq(lst, k + 1, Len(lst))

\* sort_by(|a, b| b.1.partial_cmp(&a.1).unwrap()): stable, descending
RECURSIVE SortDescFrom(_, _)
SortDescFrom(acc, rest) ==
    IF rest = <<>> THEN acc
    ELSE SortDescFrom(InsertSorted(acc, Head(rest)), Tail(rest))
SortDesc(lst) == SortDescFrom(<<>>, lst)

\* dedup_by(|a, b| a.0 == b.0): drops an entry whose id equals the id of the
\* entry kept just before it (consecutive duplicates only)
RECURSIVE DedupFrom(_, _)
DedupFrom(acc, rest) ==
    IF rest = <<>> THEN acc
    ELSE IF acc # <<>> /\ acc[Len(acc)][1] = Head(rest)[1]
         THEN DedupFrom(acc, Tail(rest))
         ELSE DedupFrom(Append(acc, Head(rest)), Tail(rest))
DedupBy(lst) == DedupFrom(<<>>, lst)

\* nn.retain(|(id, _)| seen.insert(id.clone())): keeps the first entry of each id
RECURSIVE RetainFrom(_, _)
RetainFrom(acc, rest) ==
    IF rest = <<>> THEN acc
    ELSE IF \E k \in 1..Len(acc) : acc[k][1] = Head(rest)[1]
         THEN RetainFrom(acc, Tail(rest))
         ELSE RetainFrom(Append(acc, Head(rest)), Tail(rest))
RetainFirst(lst) == RetainFrom(<<>>, lst)

\* into_iter().take(n)
Take(lst, n) == SubSeq(lst, 1, IF Len(lst) < n THEN Len(lst) ELSE n)

IdsOf(lst) == {lst[k][1] : k \in 1..Len(lst)}

\* ------------------------------------------------------------ graph state
VARIABLES
    cache,            \* VectorStore.cache: (level, id) -> entry
    max_cache_level,  \* VectorStore.max_cache_level
    ins,              \* the insert_embedding calls: position and locals
    trav,             \* per call: the tasks spawned by the running traversal
    skipm,            \* per call: the visited set of the running traversal
    pend,             \* per call: the spawned neighbor updates not yet run
    expanded,         \* per call: how often the running traversal expanded each id
    applied           \* per key: the edges its list was created with or was offered
                      \* by an update that has run (history)

gvars == <<cache, max_cache_level, ins, trav, skipm, pend, expanded, applied>>

\* ------------------------------------------------------------ integers
\* A u32, and a u64 position, is the pair of its upper part and its lower
\* 16 bits, hi * 2^16 + lo: hi < 2^16 for a u32.
W16 == 65536
U32(hi, lo) == [hi |-> hi, lo |-> lo]
Num(n) == U32(n \div W16, n % W16)
\* x as u32: the low 32 bits
AsU32(x) == U32(x.hi % W16, x.lo)
\* position + n
Advance(pos, n) == U32(pos.hi + (pos.lo + n) \div W16, (pos.lo + n) % W16)
\* n as usize, as far as it can matter: anything from 2^16 on exceeds the
\* bytes a buffer holds here
Small(n) == IF n.hi > 0 THEN W16 ELSE n.lo

\* The serializer's state (src/models/serializer/storage.rs):
VARIABLES
    buf,          \* the version's buffer file: [base, bytes]
    cursor_position, \* position of the caller's write cursor
    open,         \* cursors of the buffer manager that are open
    cursors,      \* number of cursors opened so far
    written,      \* history: <<record, position it starts at, offset returned>>
    result        \* history: <<file_index, result>> of the deserialize calls

svars == <<buf, cursor_position, open, cursors, written, result>>

\* The index catalog (src/api/vectordb/collections/repo.rs) and the calls of
\* the functions that keep no state of their own:
VARIABLES
    collections_map, \* ctx.ain_env.collections_map: the entries [name, index]
    call             \* the last call: [fn, args, ret]

pvars == <<collections_map, call>>
vars == <<gvars, svars, pvars>>

\* no index, nothing called
NoCall == [fn |-> "none", args |-> <<>>, ret |-> <<>>]
NoCalls ==
    /\ collections_map = {}
    /\ call = NoCall

\* the caller's write cursor
WriteCursor == 0

\* nothing serialized: an empty buffer, only the write cursor open
NoRecords(start) ==
    /\ buf = [base |-> start, bytes |-> <<>>]
    /\ cursor_position = start
    /\ open = {WriteCursor}
    /\ cursors = 1
    /\ written = <<>>
    /\ result = <<>>

Inserts == 1..MaxInserts
Keys == Levels \X Ids

\* the result of a lookup of a key that is not in the map
Absent == [state |-> "absent", vector_list |-> <<>>, neighbors |-> <<>>, mv |-> <<0, 0>>]
\* a key mapped to None
None == [state |-> "none", vector_list |-> <<>>, neighbors |-> <<>>, mv |-> <<0, 0>>]
\* a key mapped to Some((VectorTreeNode { vector_list, neighbors }, mv))
SomeNode(vector_list, neighbors, mv) ==
    [state |-> "some", vector_list |-> vector_list, neighbors |-> neighbors, mv |-> mv]

NoZs == [l \in Levels |-> <<>>]
IdleInsert ==
    [pc |-> "idle", hs |-> 0, entry |-> 0, level |-> 0, top |-> 0,
     mil |-> 0, vl |-> <<>>, kids |-> <<>>, zs |-> NoZs, err |-> FALSE]

\* The store the calls start from: the root is a key of every level, as a
\* node without neighbors; at most one level holds the root as None (an
\* entry that is not materialized).
RootCache(noneLevel) ==
    [k \in Levels \X {Root} |->
        IF k[1] = noneLevel THEN None
        ELSE SomeNode(raw_vec(Root), <<>>, <<0, k[1]>>)]

\* cache.get(&key)
Get(c, key) == IF key \in DOMAIN c THEN c[key] ELSE Absent
\* cache.insert(key, value)
Put(c, key, value) == [k \in DOMAIN c \cup {key} |-> IF k = key THEN value ELSE c[k]]

GraphInit ==
    /\ \E nl \in Levels \cup {-1} : cache = RootCache(nl)
    /\ max_cache_level \in Levels
    /\ ins = [i \in Inserts |-> IdleInsert]
    /\ trav = [i \in Inserts |-> <<>>]
    /\ skipm = [i \in Inserts |-> {}]
    /\ pend = [i \in Inserts |-> {}]
    /\ expanded = [i \in Inserts |-> [x \in Ids |-> 0]]
    /\ applied = [k \in Keys |-> {}]
    /\ NoRecords(Num(0))
    /\ NoCalls

\* ------------------------------------------------------------- traversal
\* A spawned child of traverse_find_nearest_inner is named by its path: the
\* ids from the start node's neighbor down to the neighbor nb it handles.
\* hops of the call that spawned it = Len(path) - 1.
Last(path) == path[Len(path)]
Task == [pc |-> "check", cs |-> 0, kids |-> <<>>, res |-> <<>>]

\* vtm.neighbors.into_iter().filter(|(nb, _)| *nb != hs): the ids to spawn for
RECURSIVE FilterNb(_, _)
FilterNb(neighbors, hs) ==
    IF neighbors = <<>> THEN <<>>
    ELSE IF Head(neighbors)[1] = hs THEN FilterNb(Tail(neighbors), hs)
    ELSE <<Head(neighbors)[1]>> \o FilterNb(Tail(neighbors), hs)

\* task::spawn for each of them
Spawn(path, kids) == [p \in {Append(path, kids[k]) : k \in 1..Len(kids)} |-> Task]

ChildrenDone(tasks, path, kids) ==
    \A k \in 1..Len(kids) : tasks[Append(path, kids[k])].pc = "done"

\* join_all(tasks) ... flat_map: the children's results in spawn order
RECURSIVE ChildRes(_, _, _)
ChildRes(tasks, path, kids) ==
    IF kids = <<>> THEN <<>>
    ELSE tasks[Append(path, Head(kids))].res \o ChildRes(tasks, path, Tail(kids))

\* the tasks left when the joined children of path are dropped
Joined(tasks, path, kids) ==
    [p \in DOMAIN tasks \ {Append(path, kids[k]) : k \in 1..Len(kids)} |-> tasks[p]]

\* (mutant: the aggregate keeps one entry)
Aggregate_Take1(nn) == Take(RetainFirst(SortDesc(nn)), K_search - 1)

\* sort, retain the first entry of each id, take(2)
Aggregate(nn) == Take(RetainFirst(SortDesc(nn)), K_search)

Done(res) == [pc |-> "done", cs |-> 0, kids |-> <<>>, res |-> res]
Front(path) == SubSeq(path, 1, Len(path) - 1)

\* join_all(tasks).await of the task at path: z.push((nb, cs)); z
JoinResult(tasks, path) ==
    Append(Aggregate(ChildRes(tasks, path, tasks[path].kids)), <<Last(path), tasks[path].cs>>)

\* The task at path returned.  A parent whose last child returned is resumed
\* by join_all; what it does then is local (aggregate, push, return), so it
\* is taken in the same step, and so on up to the frame that started the
\* traversal.
RECURSIVE Settle(_, _)
Settle(tasks, path) ==
    LET par == Front(path)
    IN  IF par = <<>> THEN tasks
        ELSE IF ChildrenDone(tasks, par, tasks[par].kids)
        THEN Settle(Joined([tasks EXCEPT ![par] = Done(JoinResult(tasks, par))],
                           par, tasks[par].kids), par)
        ELSE tasks

Return(tasks, path, res) == Settle([tasks EXCEPT ![path] = Done(res)], path)

\* if skipm.contains_key(&nb) { vec![] }: a task that has not yet looked at
\* skipm and whose nb is in it can only return the empty list, whenever it
\* runs (skipm only grows during a traversal).  Its return is taken in the
\* step that puts it in this position: its spawn, or the insert of nb.
Skipping(tasks, visited) ==
    {p \in DOMAIN tasks : tasks[p].pc = "check" /\ Last(p) \in visited}
RECURSIVE Skip(_, _)
Skip(tasks, visited) ==
    IF Skipping(tasks, visited) = {} THEN tasks
    ELSE LET p == CHOOSE q \in Skipping(tasks, visited) :
                    \A o \in Skipping(tasks, visited) : Len(o) <= Len(q)
         IN  Skip(Return(tasks, p, <<>>), visited)

\* ... else: skipm.contains_key(&nb) was false
TaskCheck(i) ==
  \E p \in DOMAIN trav[i] :
    /\ ins[i].pc = "trav"
    /\ trav[i][p].pc = "check"
    /\ Last(p) \notin skipm[i]
    /\ trav' = [trav EXCEPT ![i][p].pc = "mark"]
    /\ UNCHANGED <<cache, max_cache_level, ins, skipm, pend, expanded, applied, svars, pvars>>

\* skipm.insert(nb.clone(), ())
TaskMark(i) ==
  \E p \in DOMAIN trav[i] :
    /\ ins[i].pc = "trav"
    /\ trav[i][p].pc = "mark"
    /\ skipm' = [skipm EXCEPT ![i] = @ \cup {Last(p)}]
    /\ trav' = [trav EXCEPT ![i] = Skip([@ EXCEPT ![p].pc = "get"], skipm'[i])]
    /\ UNCHANGED <<cache, max_cache_level, ins, pend, expanded, applied, svars, pvars>>

\* vec_store.cache.get(&(cur_level, nb)): score the node and, below the hop
\* limit, spawn the traversal of its neighbors
TaskGet(i) ==
  \E p \in DOMAIN trav[i] :
    /\ ins[i].pc = "trav"
    /\ trav[i][p].pc = "get"
    /\ LET tk == trav[i][p]
           nb == Last(p)
           hops == Len(p) - 1
           e == Get(cache, <<ins[i].level, nb>>)
           cs == cosine_similarity(raw_vec(ins[i].hs), e.vector_list)
           kids == FilterNb(e.neighbors, ins[i].hs)
       IN  IF e.state = "some"
           THEN /\ expanded' = [expanded EXCEPT ![i][nb] = @ + 1]
                /\ trav' = [trav EXCEPT ![i] =
                      IF hops < MaxHops /\ kids # <<>>
                      THEN Skip([@ EXCEPT ![p] = [tk EXCEPT !.pc = "wait", !.cs = cs,
                                                            !.kids = kids]]
                                @@ Spawn(p, kids), skipm[i])
                      ELSE Return(@, p, <<<<nb, cs>>>>)]
           ELSE /\ trav' = [trav EXCEPT ![i] = Return(@, p, <<>>)]
                /\ UNCHANGED expanded
    /\ UNCHANGED <<cache, max_cache_level, ins, skipm, pend, applied, svars, pvars>>

\* ---------------------------------------------------------- insert_embedding
\* The frame of level r.level returned to its caller: the caller (level + 1)
\* goes on to insert_node_create_edges when its level is <= max_insert_level,
\* and returns as well otherwise.
\* (the locals of a call that returned are dropped)
Returned(r) == [r EXCEPT !.pc = "done", !.level = 0, !.top = 0, !.entry = 0, !.zs = NoZs]
\* (mutant: the caller goes on to insert_node_create_edges at every level)
FrameReturn_NoCeiling(r) ==
    IF r.level = r.top THEN Returned(r)
    ELSE [r EXCEPT !.pc = "ret", !.level = r.level + 1]
FrameReturn(r) ==
    IF r.level = r.top THEN Returned(r)
    ELSE IF r.level + 1 <= r.mil THEN [r EXCEPT !.pc = "ret", !.level = r.level + 1]
    ELSE Returned(r)

Started == {j \in Inserts : ins[j].pc # "idle"}
Finished == {j \in Inserts : ins[j].pc \in {"done", "panicked"}}

\* a caller starts insert_embedding(store, emb, cur_entry, cur_level, max_insert_level)
StartInsert(i) ==
    /\ ins[i].pc = "idle"
    /\ \A j \in Inserts : j < i => j \in Started
    /\ \/ Started = Finished
       \/ Finished = {} /\ Cardinality(Started) < MaxRunning
    /\ \E e \in {Root}, l \in 0..(MaxLevel + 1), m \in Levels :
        ins' = [ins EXCEPT ![i] =
            [IdleInsert EXCEPT !.pc = "get", !.hs = i, !.entry = e,
                               !.level = l, !.top = l, !.mil = m]]
    /\ UNCHANGED <<cache, max_cache_level, trav, skipm, pend, expanded, applied, svars, pvars>>

\* cache.get(&(cur_level, cur_entry)) finds a materialized node: start
\* traverse_find_nearest from it with an empty visited set
LookupSome(i) ==
    /\ ins[i].pc = "get"
    /\ LET e == Get(cache, <<ins[i].level, ins[i].entry>>)
       IN  /\ e.state = "some"
           /\ ins' = [ins EXCEPT ![i].pc = "trav", ![i].vl = e.vector_list,
                                  ![i].kids = FilterNb(e.neighbors, ins[i].hs)]
           /\ trav' = [trav EXCEPT ![i] = Spawn(<<>>, FilterNb(e.neighbors, ins[i].hs))]
    /\ UNCHANGED <<cache, max_cache_level, skipm, pend, expanded, applied, svars, pvars>>

\* the entry is None above max_cache_level: get_vector_from_db is
\* unimplemented!() and panics, which unwinds the whole call
LookupNone(i) ==
    /\ ins[i].pc = "get"
    /\ Get(cache, <<ins[i].level, ins[i].entry>>).state = "none"
    /\ ins[i].level > max_cache_level
    /\ ins' = [ins EXCEPT ![i] = [Returned(@) EXCEPT !.pc = "panicked"]]
    /\ UNCHANGED <<cache, max_cache_level, trav, skipm, pend, expanded, applied, svars, pvars>>

\* "Error case, should not happen": the key is absent, or None at a level
\* <= max_cache_level; the frame logs and returns
LookupError(i) ==
    /\ ins[i].pc = "get"
    /\ LET e == Get(cache, <<ins[i].level, ins[i].entry>>)
       IN  \/ e.state = "absent"
           \/ e.state = "none" /\ ins[i].level <= max_cache_level
    /\ ins' = [ins EXCEPT ![i] = FrameReturn([@ EXCEPT !.err = TRUE])]
    /\ UNCHANGED <<cache, max_cache_level, trav, skipm, pend, expanded, applied, svars, pvars>>

\* the traversal of the frame returned z: substitute the entry when z is
\* empty and recurse into cur_level - 1 from z[0] (at level -1 the recursive
\* call returns at once)
TraverseJoin(i) ==
    /\ ins[i].pc = "trav"
    /\ ChildrenDone(trav[i], <<>>, ins[i].kids)
    /\ LET r == ins[i]
           z0 == Aggregate(ChildRes(trav[i], <<>>, r.kids))
           y == cosine_similarity(raw_vec(r.hs), r.vl)
           z == IF z0 = <<>> THEN <<<<r.entry, y>>>> ELSE z0
           r1 == [r EXCEPT !.zs[r.level] = z, !.vl = <<>>, !.kids = <<>>]
       IN  ins' = [ins EXCEPT ![i] =
              IF r.level = 0
              THEN FrameReturn([r1 EXCEPT !.level = -1])
              ELSE [r1 EXCEPT !.level = r.level - 1, !.entry = z[1][1], !.pc = "get"]]
    /\ trav' = [trav EXCEPT ![i] = <<>>]
    /\ skipm' = [skipm EXCEPT ![i] = {}]
    /\ expanded' = [expanded EXCEPT ![i] = [x \in Ids |-> 0]]
    /\ UNCHANGED <<cache, max_cache_level, pend, applied, svars, pvars>>

\* ------------------------------------------------- insert_node_create_edges
\* (mutant: the list is not truncated)
AlterNeighbors_NoTake(ng, hs, cs) == DedupBy(SortDesc(Append(ng, <<hs, cs>>)))
\* (mutant: the update is computed from a stale, empty list and written back)
AlterNeighbors_Stale(ng, hs, cs) == Take(DedupBy(SortDesc(<<<<hs, cs>>>>)), M)

\* the closure given to cache.alter on a materialized entry
AlterNeighbors(ng, hs, cs) == Take(DedupBy(SortDesc(Append(ng, <<hs, cs>>))), M)

\* (mutant: the updated entry gets a new guard)
Alter_NewGuard(c, key, hs, cs) ==
    IF Get(c, key).state = "some"
    THEN [c EXCEPT ![key].neighbors = AlterNeighbors(@, hs, cs), ![key].mv = <<hs, key[1]>>]
    ELSE c

\* cache.alter(&key, f): atomic on the key; nothing happens on an absent key
\* and a None entry is returned as it is
Alter(c, key, hs, cs) ==
    IF Get(c, key).state = "some"
    THEN [c EXCEPT ![key].neighbors = AlterNeighbors(@, hs, cs)]
    ELSE c

\* (mutant: the update tasks are spawned but the node is not inserted)
InsertNode_NoPut(i) ==
    /\ ins[i].pc = "ret"
    /\ LET r == ins[i]
       IN  pend' = [pend EXCEPT ![i] = {r.zs[r.level][k] : k \in 1..Len(r.zs[r.level])}]
    /\ ins' = [ins EXCEPT ![i].pc = "edges"]
    /\ UNCHANGED <<cache, max_cache_level, trav, skipm, expanded, applied, svars, pvars>>

\* cache.insert((cur_level, hs), Some((nv, em))) and the spawn of one update
\* task per candidate
InsertNode(i) ==
    /\ ins[i].pc = "ret"
    /\ LET r == ins[i]
       IN  /\ cache' = Put(cache, <<r.level, r.hs>>,
                  SomeNode(raw_vec(r.hs), r.zs[r.level], <<r.hs, r.level>>))
           /\ pend' = [pend EXCEPT ![i] = {r.zs[r.level][k] : k \in 1..Len(r.zs[r.level])}]
           /\ applied' = [applied EXCEPT ![<<r.level, r.hs>>] =
                  {r.zs[r.level][k] : k \in 1..Len(r.zs[r.level])}]
    /\ ins' = [ins EXCEPT ![i].pc = "edges"]
    /\ UNCHANGED <<max_cache_level, trav, skipm, expanded, svars, pvars>>

\* the spawned task of candidate e runs: cache.alter(&(cur_level, nb), ...)
ApplyEdge(i, e) ==
    /\ cache' = Alter(cache, <<ins[i].level, e[1]>>, ins[i].hs, e[2])
    /\ pend' = [pend EXCEPT ![i] = @ \ {e}]
    /\ applied' = IF Get(cache, <<ins[i].level, e[1]>>).state = "some"
                  THEN [applied EXCEPT ![<<ins[i].level, e[1]>>] = @ \cup {<<ins[i].hs, e[2]>>}]
                  ELSE applied
    /\ UNCHANGED <<max_cache_level, ins, trav, skipm, expanded, svars, pvars>>

\* one spawned task: cache.alter(&(cur_level, nb), ...)
AlterEdge(i) ==
    /\ ins[i].pc = "edges"
    /\ \E e \in pend[i] : ApplyEdge(i, e)

\* (mutant: the frame returns without waiting for the updates)
EdgesJoin_NoWait(i) ==
    /\ ins[i].pc = "edges"
    /\ ins' = [ins EXCEPT ![i] = FrameReturn(@)]
    /\ UNCHANGED <<cache, max_cache_level, trav, skipm, pend, expanded, applied, svars, pvars>>

\* join_all(tasks).await: every update ran, the frame returns
EdgesJoin(i) ==
    /\ ins[i].pc = "edges"
    /\ pend[i] = {}
    /\ ins' = [ins EXCEPT ![i] = FrameReturn(@)]
    /\ UNCHANGED <<cache, max_cache_level, trav, skipm, pend, expanded, applied, svars, pvars>>

GraphNext ==
    \E i \in Inserts :
        \/ StartInsert(i)
        \/ LookupSome(i)
        \/ LookupNone(i)
        \/ LookupError(i)
        \/ TaskCheck(i)
        \/ TaskMark(i)
        \/ TaskGet(i)
        \/ TraverseJoin(i)
        \/ InsertNode(i)
        \/ AlterEdge(i)
        \/ EdgesJoin(i)

Spec == GraphInit /\ [][GraphNext]_vars

\* ------------------------------------------- the cache's entry references
\* The second specification of the graph: the cache is a DashMap, whose get
\* returns a reference that keeps the entry's shard read-locked until it is
\* dropped, and whose alter waits for the write lock.  insert_embedding binds
\* the reference of cache.get(&(cur_level, cur_entry)) in `if let Some(res)`,
\* so each frame keeps it until the frame returns, across the traversal, the
\* recursive call and insert_node_create_edges.  Only the wait that every
\* build has is modelled: an alter on a key some frame holds a reference to
\* (keys that merely share a shard are taken not to wait).

\* cur_entry of the frame of level l of the call r
EntryAt(r, l) == IF l = r.top THEN Root ELSE r.zs[l + 1][1][1]
\* the levels whose frame has looked its entry up and has not returned
HeldLevels(r) ==
    IF r.pc \in {"trav", "ret", "edges"} THEN r.level..r.top
    ELSE IF r.pc = "get" THEN (r.level + 1)..r.top
    ELSE {}
\* the keys the frames of call i hold a reference to
Refs(i) == {<<l, EntryAt(ins[i], l)>> : l \in HeldLevels(ins[i])}
Held == UNION {Refs(i) : i \in Inserts}

\* one spawned task: cache.alter(&(cur_level, nb), ...) gets the write lock
\* when no reference to the key is held
AlterEdgeLocked(i) ==
    /\ ins[i].pc = "edges"
    /\ \E e \in pend[i] :
        /\ <<ins[i].level, e[1]>> \notin Held
        /\ ApplyEdge(i, e)

\* The caches the calls start from: the root alone (as in GraphInit), or a
\* cycle of nodes through the root at every level, each node listing the
\* next one.
Rings == {<<Root, 5, 6>>, <<Root, 4, 5, 6, 7, 8>>}
RingCache(ring) ==
    [k \in Levels \X IdsOf([n \in 1..Len(ring) |-> <<ring[n], 0>>]) |->
        LET n == CHOOSE m \in 1..Len(ring) : ring[m] = k[2]
            next == ring[(n % Len(ring)) + 1]
        IN  SomeNode(raw_vec(k[2]),
                     <<<<next, cosine_similarity(raw_vec(k[2]), raw_vec(next))>>>>,
                     <<k[2], k[1]>>)]

FairInit ==
    /\ \/ \E nl \in Levels \cup {-1} : cache = RootCache(nl)
       \/ \E ring \in Rings : cache = RingCache(ring)
    /\ max_cache_level \in Levels
    /\ ins = [i \in Inserts |-> IdleInsert]
    /\ trav = [i \in Inserts |-> <<>>]
    /\ skipm = [i \in Inserts |-> {}]
    /\ pend = [i \in Inserts |-> {}]
    /\ expanded = [i \in Inserts |-> [x \in Ids |-> 0]]
    /\ applied = [k \in Keys |-> {}]
    /\ NoRecords(Num(0))
    /\ NoCalls

\* the steps of call i that the runtime takes: the call's own future and the
\* tasks it spawned
Scheduled(i) ==
    \/ LookupSome(i)
    \/ LookupNone(i)
    \/ LookupError(i)
    \/ TaskCheck(i)
    \/ TaskMark(i)
    \/ TaskGet(i)
    \/ TraverseJoin(i)
    \/ InsertNode(i)
    \/ AlterEdgeLocked(i)
    \/ EdgesJoin(i)

\* a caller that starts a call when the calls before it have ended
StartAlone(i) ==
    /\ Started = Finished
    /\ StartInsert(i)

FairNext ==
    \E i \in {1, 2} :
        \/ StartAlone(i)
        \/ Scheduled(i)

\* the runtime polls every task that can run
FairSpec ==
    /\ FairInit
    /\ [][FairNext]_vars
    /\ \A i \in {1, 2} : WF_vars(Scheduled(i))

\* ------------------------------------- two traversals of one fixed cache
\* traverse_find_nearest run twice, by calls 1 and 2, for the same probe from
\* the root of the same cache at level 0; nothing is inserted, so the cache
\* stays as it is and the two runs differ only in the order in which their
\* spawned tasks run.

\* The neighbor graphs: the ids each node lists.  A chain from the root with
\* a shortcut, a cycle with a shortcut, and a diamond.
Probe == 1
TravGraphs ==
    {<<<<0, <<2, 4>>>>, <<2, <<4>>>>, <<4, <<5>>>>, <<5, <<7>>>>, <<7, <<8>>>>,
       <<8, <<6>>>>, <<6, <<>>>>>>,
     <<<<0, <<2, 4>>>>, <<2, <<4>>>>, <<4, <<5>>>>, <<5, <<0, 2>>>>>>,
     <<<<0, <<2, 3>>>>, <<2, <<4>>>>, <<3, <<4>>>>, <<4, <<0>>>>>>}

\* the neighbor list of id: its ids with their similarity, most similar first
ListOf(id, nbs) ==
    SortDesc([k \in 1..Len(nbs) |->
                 <<nbs[k], cosine_similarity(raw_vec(id), raw_vec(nbs[k]))>>])
GraphCache(g) ==
    [k \in {0} \X {g[n][1] : n \in 1..Len(g)} |->
        LET n == CHOOSE m \in 1..Len(g) : g[m][1] = k[2]
        IN  SomeNode(raw_vec(k[2]), ListOf(k[2], g[n][2]), <<k[2], k[1]>>)]

TravInit ==
    /\ \E g \in TravGraphs : cache = GraphCache(g)
    /\ max_cache_level = MaxLevel
    /\ ins = [i \in Inserts |-> IdleInsert]
    /\ trav = [i \in Inserts |-> <<>>]
    /\ skipm = [i \in Inserts |-> {}]
    /\ pend = [i \in Inserts |-> {}]
    /\ expanded = [i \in Inserts |-> [x \in Ids |-> 0]]
    /\ applied = [k \in Keys |-> {}]
    /\ NoRecords(Num(0))
    /\ NoCalls

\* insert_embedding(store, Probe, root, 0, 0) is called
StartProbe(i) ==
    /\ ins[i].pc = "idle"
    /\ ins' = [ins EXCEPT ![i] =
          [IdleInsert EXCEPT !.pc = "get", !.hs = Probe, !.entry = Root]]
    /\ UNCHANGED <<cache, max_cache_level, trav, skipm, pend, expanded, applied, svars, pvars>>

TravNext ==
    \E i \in {1, 2} :
        \/ StartProbe(i)
        \/ LookupSome(i)
        \/ TaskCheck(i)
        \/ TaskMark(i)
        \/ TaskGet(i)

SpecTrav == TravInit /\ [][TravNext]_vars

\* ---------------------------------------------- five inserts, one by one
\* The caller of the fan-out scenario: a store with the root materialized at
\* every level, and the five embeddings inserted at level 0 one after the
\* other, in any order, each call started when the one before has returned.
FiveInit ==
    /\ cache = RootCache(-1)
    /\ max_cache_level = MaxLevel
    /\ ins = [i \in Inserts |-> IdleInsert]
    /\ trav = [i \in Inserts |-> <<>>]
    /\ skipm = [i \in Inserts |-> {}]
    /\ pend = [i \in Inserts |-> {}]
    /\ expanded = [i \in Inserts |-> [x \in Ids |-> 0]]
    /\ applied = [k \in Keys |-> {}]
    /\ NoRecords(Num(0))
    /\ NoCalls

\* insert_embedding(store, embedding hs, root, 0, 0)
InsertNext(i) ==
    /\ ins[i].pc \in {"idle", "done"}
    /\ \E hs \in FiveIds :
        /\ <<0, hs>> \notin DOMAIN cache
        /\ ins' = [ins EXCEPT ![i] =
              [IdleInsert EXCEPT !.pc = "get", !.hs = hs, !.entry = Root,
                                 !.level = 0, !.top = 0, !.mil = 0]]
    /\ UNCHANGED <<cache, max_cache_level, trav, skipm, pend, expanded, applied, svars, pvars>>

FiveNext ==
    \E i \in {1} :
        \/ InsertNext(i)
        \/ LookupSome(i)
        \/ TaskCheck(i)
        \/ TaskMark(i)
        \/ TaskGet(i)
        \/ TraverseJoin(i)
        \/ InsertNode(i)
        \/ AlterEdge(i)
        \/ EdgesJoin(i)

SpecFive == FiveInit /\ [][FiveNext]_vars

\* ============================================================ serializer
\* src/models/serializer/storage.rs over one version's buffer manager.
\* f32 and f16 values are their IEEE bit patterns (to_le_bytes writes the
\* bits, from_le_bytes reads them back).

\* --------------------------------------------------------------- bounds
\* longest quant_vec (and most chunks of a SubByte value)
MaxVecLen == 2
\* number of serialize calls
MaxRecords == 2
\* number of deserialize calls
MaxReads == 2

\* ---------------------------------------------------------- Storage values
\* One record shape for the three variants, so that values compare: the
\* Vec<Vec<u8>> of SubByte is the field chunks, the Vec<u8> and Vec<f16> of
\* the others the field quant_vec.
UnsignedByte(mag, quant_vec) ==
    [variant |-> "UnsignedByte", mag |-> mag, resolution |-> 0,
     quant_vec |-> quant_vec, chunks |-> <<>>]
SubByte(mag, quant_vec, resolution) ==
    [variant |-> "SubByte", mag |-> mag, resolution |-> resolution,
     quant_vec |-> <<>>, chunks |-> quant_vec]
HalfPrecisionFP(mag, quant_vec) ==
    [variant |-> "HalfPrecisionFP", mag |-> mag, resolution |-> 0,
     quant_vec |-> quant_vec, chunks |-> <<>>]

SeqsUpTo(alphabet, n) == UNION {[1..k -> alphabet] : k \in 0..n}

\* bit patterns: 1.0f32 and 0.0f32; f16 0.0 and 1.0
F32One == U32(16256, 0)
F16One == 15360
U32Samples == {Num(42), U32(W16 - 1, W16 - 1)}
F32Samples == {Num(0), F32One}

\* {mag: 42, quant_vec: [1, 2, 3]}, the record of the documented example
ExampleStorage == UnsignedByte(Num(42), <<1, 2, 3>>)

StorageValues ==
    {UnsignedByte(m, v) : m \in U32Samples, v \in SeqsUpTo({0, 255}, MaxVecLen)}
    \cup {SubByte(m, v, 4) : m \in F32Samples, v \in SeqsUpTo({<<>>, <<7>>}, MaxVecLen)}
    \cup {HalfPrecisionFP(m, v) : m \in {F32One}, v \in SeqsUpTo({0, F16One}, MaxVecLen)}
    \cup {ExampleStorage}

\* ------------------------------------------------------- buffer manager
\* write_u8_with_cursor
U8Bytes(n) == <<n % 256>>
\* write_u32_with_cursor / write_f32_with_cursor: four bytes, little-endian
LE32(n) == <<n.lo % 256, n.lo \div 256, n.hi % 256, n.hi \div 256>>
\* el.to_le_bytes() of an f16
LE16(n) == <<n % 256, (n \div 256) % 256>>

\* The buffer file: the bytes written from position base on.  What lies
\* below base (earlier records) is not modelled; a read outside the bytes
\* written fails.
Index(b, pos) ==
    IF pos.hi - b.base.hi \in {0, 1}
    THEN (pos.hi - b.base.hi) * W16 + pos.lo - b.base.lo
    ELSE -1
HasBytes(b, pos, n) == Index(b, pos) >= 0 /\ Index(b, pos) + n <= Len(b.bytes)
ByteAt(b, pos) == b.bytes[Index(b, pos) + 1]
\* read_u32_with_cursor / read_f32_with_cursor
U32At(b, pos) ==
    U32(ByteAt(b, Advance(pos, 2)) + 256 * ByteAt(b, Advance(pos, 3)),
        ByteAt(b, pos) + 256 * ByteAt(b, Advance(pos, 1)))
\* f16::from_le_bytes
U16At(b, pos) == ByteAt(b, pos) + 256 * ByteAt(b, Advance(pos, 1))

\* --------------------------------------------------------------- serialize
RECURSIVE Flatten(_)
Flatten(ss) == IF ss = <<>> THEN <<>> ELSE Head(ss) \o Flatten(Tail(ss))

\* (mutant: the length is written before the magnitude)
SerializeBytes_LenFirst(s) ==
    IF s.variant = "UnsignedByte"
    THEN U8Bytes(0) \o LE32(Num(Len(s.quant_vec))) \o LE32(s.mag)
         \o Flatten([k \in 1..Len(s.quant_vec) |-> U8Bytes(s.quant_vec[k])])
    ELSE IF s.variant = "SubByte"
    THEN U8Bytes(1) \o U8Bytes(s.resolution) \o LE32(Num(Len(s.chunks))) \o LE32(s.mag)
         \o Flatten([k \in 1..Len(s.chunks) |->
                LE32(Num(Len(s.chunks[k])))
                \o Flatten([j \in 1..Len(s.chunks[k]) |-> U8Bytes(s.chunks[k][j])])])
    ELSE U8Bytes(2) \o LE32(Num(Len(s.quant_vec))) \o LE32(s.mag)
         \o Flatten([k \in 1..Len(s.quant_vec) |-> LE16(s.quant_vec[k])])

\* the writes of serialize, in order (match self { ... })
SerializeBytes(s) ==
    IF s.variant = "UnsignedByte"
    THEN U8Bytes(0) \o LE32(s.mag) \o LE32(Num(Len(s.quant_vec)))
         \o Flatten([k \in 1..Len(s.quant_vec) |-> U8Bytes(s.quant_vec[k])])
    ELSE IF s.variant = "SubByte"
    THEN U8Bytes(1) \o U8Bytes(s.resolution) \o LE32(s.mag) \o LE32(Num(Len(s.chunks)))
         \o Flatten([k \in 1..Len(s.chunks) |->
                LE32(Num(Len(s.chunks[k])))
                \o Flatten([j \in 1..Len(s.chunks[k]) |-> U8Bytes(s.chunks[k][j])])])
    ELSE U8Bytes(2) \o LE32(s.mag) \o LE32(Num(Len(s.quant_vec)))
         \o Flatten([k \in 1..Len(s.quant_vec) |-> LE16(s.quant_vec[k])])

\* let start = bufman.cursor_position(cursor)? as u32
StartOffset(pos) == AsU32(pos)

\* ------------------------------------------------------------- deserialize
\* results: Ok(storage) or Err(kind); closed tells whether close_cursor ran,
\* opened whether open_cursor ran
Ok(storage) == [ok |-> TRUE, err |-> "", value |-> storage, opened |-> TRUE, closed |-> TRUE]
Err(kind, opened) ==
    [ok |-> FALSE, err |-> kind, value |-> UnsignedByte(Num(0), <<>>), opened |-> opened,
     closed |-> FALSE]
\* a failed read: the ? operator returns the error at once
IoError == Err("BufIoError", TRUE)

\* for _ in 0..len { read_u8_with_cursor }
ReadU8s(b, pos, n) == [k \in 1..n |-> ByteAt(b, Advance(pos, k - 1))]
\* for _ in 0..len { read_with_cursor(2 bytes); f16::from_le_bytes }
ReadF16s(b, pos, n) == [k \in 1..n |-> U16At(b, Advance(pos, 2 * (k - 1)))]

\* the chunks of a SubByte record: n times (u32 len, len bytes), from pos;
\* "eof" when a read fails
RECURSIVE ReadChunks(_, _, _)
ReadChunks(b, pos, n) ==
    IF n = 0 THEN <<>>
    ELSE IF ~HasBytes(b, pos, 4) THEN "eof"
    ELSE LET len == Small(U32At(b, pos))
         IN  IF ~HasBytes(b, Advance(pos, 4), len) THEN "eof"
             ELSE LET rest == ReadChunks(b, Advance(pos, 4 + len), n - 1)
                  IN  IF rest = "eof" THEN "eof"
                      ELSE <<ReadU8s(b, Advance(pos, 4), len)>> \o rest

\* the record at offset (a u32, widened to the u64 the cursor seeks to), read
\* through a fresh cursor
ReadRecord(b, offset) ==
    IF ~HasBytes(b, offset, 1) THEN IoError
    ELSE LET variant_index == ByteAt(b, offset)
         IN  IF variant_index = 0
             THEN IF ~HasBytes(b, Advance(offset, 1), 8) THEN IoError
                  ELSE LET mag == U32At(b, Advance(offset, 1))
                           len == Small(U32At(b, Advance(offset, 5)))
                       IN  IF ~HasBytes(b, Advance(offset, 9), len) THEN IoError
                           ELSE Ok(UnsignedByte(mag, ReadU8s(b, Advance(offset, 9), len)))
             ELSE IF variant_index = 1
             THEN IF ~HasBytes(b, Advance(offset, 1), 9) THEN IoError
                  ELSE LET resolution == ByteAt(b, Advance(offset, 1))
                           mag == U32At(b, Advance(offset, 2))
                           len == Small(U32At(b, Advance(offset, 6)))
                           chunks == IF len * 4 > Len(b.bytes) THEN "eof"
                                     ELSE ReadChunks(b, Advance(offset, 10), len)
                       IN  IF chunks = "eof" THEN IoError
                           ELSE Ok(SubByte(mag, chunks, resolution))
             ELSE IF variant_index = 2
             THEN IF ~HasBytes(b, Advance(offset, 1), 8) THEN IoError
                  ELSE LET mag == U32At(b, Advance(offset, 1))
                           len == Small(U32At(b, Advance(offset, 5)))
                       IN  IF ~HasBytes(b, Advance(offset, 9), 2 * len) THEN IoError
                           ELSE Ok(HalfPrecisionFP(mag, ReadF16s(b, Advance(offset, 9), len)))
             ELSE Err("InvalidData", TRUE)

\* a FileIndex: Invalid, or Valid { offset, version_id }
Invalid == [valid |-> FALSE, offset |-> Num(0)]
Valid(offset) == [valid |-> TRUE, offset |-> offset]

\* (mutant: the cursor is opened before file_index is looked at)
DeserializeResult_OpenFirst(b, file_index) ==
    IF ~file_index.valid THEN Err("InvalidInput", TRUE)
    ELSE ReadRecord(b, file_index.offset)

\* Storage::deserialize(bufmans, file_index, ..)
DeserializeResult(b, file_index) ==
    IF ~file_index.valid THEN Err("InvalidInput", FALSE)
    ELSE ReadRecord(b, file_index.offset)

\* ---------------------------------------------------------------- actions
\* where the write cursor stands before the first record: 0, 2^32 - 3, 2^32
StartPositions == {Num(0), U32(W16 - 1, W16 - 3), U32(W16, 0)}


\* the graph is not involved: an empty cache, no call
NoGraph ==
    /\ cache = RootCache(-1)
    /\ max_cache_level = 0
    /\ ins = [i \in Inserts |-> IdleInsert]
    /\ trav = [i \in Inserts |-> <<>>]
    /\ skipm = [i \in Inserts |-> {}]
    /\ pend = [i \in Inserts |-> {}]
    /\ expanded = [i \in Inserts |-> [x \in Ids |-> 0]]
    /\ applied = [k \in Keys |-> {}]

SerInit ==
    /\ \E start \in StartPositions : NoRecords(start)
    /\ NoGraph
    /\ NoCalls

\* s.serialize(bufmans, version, cursor)
Serialize(s) ==
    /\ Len(written) < MaxRecords
    /\ LET start == StartOffset(cursor_position)
           bytes == SerializeBytes(s)
       IN  /\ buf' = [buf EXCEPT !.bytes = @ \o bytes]
           /\ cursor_position' = Advance(cursor_position, Len(bytes))
           /\ written' = Append(written,
                                [storage |-> s, at |-> cursor_position, start |-> start])
    /\ UNCHANGED <<open, cursors, result, gvars, pvars>>

\* the file indexes tried: Invalid, every offset serialize returned, and the
\* byte after it (inside the record)
FileIndexes ==
    {Invalid} \cup {Valid(written[k].start) : k \in 1..Len(written)}
              \cup {Valid(AsU32(Advance(written[k].start, 1))) : k \in 1..Len(written)}

\* Storage::deserialize(bufmans, file_index, ..): open_cursor gives a fresh
\* cursor; close_cursor runs on the path that reaches it
Deserialize(file_index) ==
    /\ Len(result) < MaxReads
    /\ LET res == DeserializeResult(buf, file_index)
           cursor == cursors
       IN  /\ result' = Append(result, [file_index |-> file_index, res |-> res])
           /\ cursors' = IF res.opened THEN cursors + 1 ELSE cursors
           /\ open' = IF res.opened /\ ~res.closed THEN open \cup {cursor} ELSE open
    /\ UNCHANGED <<buf, cursor_position, written, gvars, pvars>>

SerNext ==
    \/ \E s \in StorageValues : Serialize(s)
    \/ \E file_index \in FileIndexes : Deserialize(file_index)

SpecSer == SerInit /\ [][SerNext]_vars

\* ============================================================== distance
\* src/distance/euclidean.rs.  An f32 is [kind, v]: finite with v its value
\* in quarters (the inputs are multiples of 1/2, so differences, squares and
\* sums are exact), infinite with v its sign, or NaN.

Fin(v) == [kind |-> "fin", v |-> v]
Inf(sign) == [kind |-> "inf", v |-> sign]
NaN == [kind |-> "nan", v |-> 0]

RECURSIVE Pow2(_)
Pow2(n) == IF n = 0 THEN 1 ELSE 2 * Pow2(n - 1)

\* f32::from(a) of an f16 given by its bits: sign, 5 bits of exponent, 10 of
\* fraction (for the inputs used: zero, infinities, NaN and multiples of 1/2
\* from 1/2 on); the value in halves
F16ToF32(bits) ==
    LET sign == IF bits \div 32768 = 1 THEN -1 ELSE 1
        exp == (bits \div 1024) % 32
        frac == bits % 1024
    IN  IF exp = 31 THEN (IF frac = 0 THEN Inf(sign) ELSE NaN)
        ELSE IF exp = 0 /\ frac = 0 THEN Fin(0)
        ELSE Fin(sign * (((1024 + frac) * Pow2(exp - 14)) \div 1024))

\* a - b
SubF32(a, b) ==
    IF a.kind = "nan" \/ b.kind = "nan" THEN NaN
    ELSE IF a.kind = "inf" THEN (IF b.kind = "inf" /\ b.v = a.v THEN NaN ELSE a)
    ELSE IF b.kind = "inf" THEN Inf(-b.v)
    ELSE Fin(a.v - b.v)

\* diff * diff: halves times halves are quarters
SquareF32(d) ==
    IF d.kind = "nan" THEN NaN
    ELSE IF d.kind = "inf" THEN Inf(1)
    ELSE Fin(d.v * d.v)

\* a + b
AddF32(a, b) ==
    IF a.kind = "nan" \/ b.kind = "nan" THEN NaN
    ELSE IF a.kind = "inf" THEN (IF b.kind = "inf" /\ b.v # a.v THEN NaN ELSE a)
    ELSE IF b.kind = "inf" THEN b
    ELSE Fin(a.v + b.v)

\* .sum::<f32>()
RECURSIVE SumF32(_)
SumF32(terms) == IF terms = <<>> THEN Fin(0) ELSE AddF32(Head(terms), SumF32(Tail(terms)))

\* .sqrt(): NaN below zero; otherwise the root of v quarters, kept as
\* [kind "root", v] (equal arguments give equal roots, and the root is zero
\* only for zero)
SqrtF32(a) ==
    IF a.kind = "nan" \/ (a.kind = "fin" /\ a.v < 0) THEN NaN
    ELSE IF a.kind = "inf" THEN a
    ELSE [kind |-> "root", v |-> a.v]

\* the builds: arithmetic overflow panics with debug assertions and wraps
\* without
Builds == {"debug", "release"}
MinI16 == -32768
MaxI16 == 32767
WrapI16(n) == ((n - MinI16) % 65536) + MinI16

\* x.iter().zip(y.iter())
Zip(x, y) == [k \in 1..(IF Len(x) < Len(y) THEN Len(x) ELSE Len(y)) |-> <<x[k], y[k]>>]

\* let diff = (a as i16) - (b as i16); diff * diff, in i16
SquaredDiffI16(a, b) == (a - b) * (a - b)
Overflows(n) == n < MinI16 \/ n > MaxI16

Panic == [kind |-> "panic", err |-> "", value |-> NaN]
OkDistance(d) == [kind |-> "Ok", err |-> "", value |-> d]
DistanceError(e) == [kind |-> "Err", err |-> e, value |-> NaN]

\* euclidean_distance_u8(x, y); (diff * diff) as f32 is exact
euclidean_distance_u8(x, y, build) ==
    LET pairs == Zip(x, y)
    IN  IF build = "debug"
           /\ \E k \in 1..Len(pairs) : Overflows(SquaredDiffI16(pairs[k][1], pairs[k][2]))
        THEN Panic
        ELSE OkDistance(SqrtF32(SumF32(
                 [k \in 1..Len(pairs) |->
                     Fin(4 * WrapI16(SquaredDiffI16(pairs[k][1], pairs[k][2])))])))

\* euclidean_distance_f16(x, y)
euclidean_distance_f16(x, y) ==
    LET pairs == Zip(x, y)
    IN  OkDistance(SqrtF32(SumF32(
            [k \in 1..Len(pairs) |->
                SquareF32(SubF32(F16ToF32(pairs[k][1]), F16ToF32(pairs[k][2])))])))

\* EuclideanDistance::calculate(&self, x, y)
calculate(x, y, build) ==
    IF x.variant = "UnsignedByte" /\ y.variant = "UnsignedByte"
    THEN euclidean_distance_u8(x.quant_vec, y.quant_vec, build)
    ELSE IF x.variant = "HalfPrecisionFP" /\ y.variant = "HalfPrecisionFP"
    THEN euclidean_distance_f16(x.quant_vec, y.quant_vec)
    ELSE IF x.variant = "SubByte" /\ y.variant = "SubByte"
    THEN DistanceError("CalculationError")
    ELSE DistanceError("StorageMismatch")

\* the arguments tried: bytes that do and do not overflow the square, halves
\* 0, 1/2, 1, -1, +infinity and a NaN
DistanceArgs ==
    {UnsignedByte(Num(0), v) : v \in SeqsUpTo({0, 3, 200, 255}, MaxVecLen)}
    \cup {HalfPrecisionFP(Num(0), v) :
            v \in SeqsUpTo({0, 14336, 15360, 48128, 31744, 32256}, MaxVecLen)}
    \cup {SubByte(Num(0), v, 4) : v \in SeqsUpTo({<<7>>}, 1)}

DistInit ==
    /\ NoGraph
    /\ NoRecords(Num(0))
    /\ NoCalls

\* one call of calculate, on arguments of any two variants
Calculate(x, y, build) ==
    /\ call = NoCall
    /\ call' = [fn |-> "calculate", args |-> <<x, y, build>>, ret |-> calculate(x, y, build)]
    /\ UNCHANGED <<collections_map, gvars, svars>>

DistNext == \E x \in DistanceArgs, y \in DistanceArgs, build \in Builds : Calculate(x, y, build)

SpecDist == DistInit /\ [][DistNext]_vars

\* ===================================================== binary quantization
\* quantize and cosine_coalesce of src/vector_store.rs.  A float is an
\* integer here (only its sign is used).

\* --------------------------------------------------------------- bounds
\* number of 16-flag chunks of the longest vector
MaxChunks == 2

\* if x >= 0.0 { 1 } else { 0 }
to_float_flag(x) == IF x >= 0 THEN 1 ELSE 0

\* quantize: chunks of 16 flags, the last one shorter when the dimension is
\* no multiple of 16
quantize(fins) ==
    [c \in 1..((Len(fins) + 15) \div 16) |->
        [k \in 1..(IF 16 * c <= Len(fins) THEN 16 ELSE Len(fins) - 16 * (c - 1)) |->
            to_float_flag(fins[16 * (c - 1) + k])]]

\* for i in 0..size { result = (result << 1) | bits[i] }: "oob" when bits
\* has fewer than size entries (index out of bounds)
RECURSIVE ShiftIn(_, _, _)
ShiftIn(bits, k, size) ==
    IF k = 0 THEN 0 ELSE ((2 * ShiftIn(bits, k - 1, size)) + bits[k])
bits_to_integer(bits, size) ==
    IF Len(bits) < size THEN "oob" ELSE ShiftIn(bits, size, size)

\* the table of x_function: the number of set bits of a value below 16
x_function(value) ==
    IF value < 16 THEN <<0, 1, 1, 2, 1, 2, 2, 3, 1, 2, 2, 3, 2, 3, 3, 4>>[value + 1] ELSE -1

\* 15 & (value >> s)
Nibble(value, s) == (value \div Pow2(s)) % 16

\* shift_and_accumulate: the four nibbles of the low 16 bits
shift_and_accumulate(value) ==
    x_function(Nibble(value, 0)) + x_function(Nibble(value, 4))
        + x_function(Nibble(value, 8)) + x_function(Nibble(value, 12))

\* value1 & value2
RECURSIVE BitAnd(_, _)
BitAnd(v, w) ==
    IF v = 0 \/ w = 0 THEN 0
    ELSE 2 * BitAnd(v \div 2, w \div 2) + (IF v % 2 = 1 /\ w % 2 = 1 THEN 1 ELSE 0)

CosResult(dotprod, premag_a, premag_b) ==
    [dotprod |-> dotprod, premag_a |-> premag_a, premag_b |-> premag_b]

\* (mutant: premag_a is taken from the second argument)
compute_cosine_similarity_Swapped(a, b, size) ==
    LET value1 == bits_to_integer(a, size)
        value2 == bits_to_integer(b, size)
    IN  CosResult(shift_and_accumulate(BitAnd(value1, value2)),
                  shift_and_accumulate(value2),
                  shift_and_accumulate(value2))

\* compute_cosine_similarity(a, b, size), for chunks of at least size flags
compute_cosine_similarity(a, b, size) ==
    LET value1 == bits_to_integer(a, size)
        value2 == bits_to_integer(b, size)
    IN  CosResult(shift_and_accumulate(BitAnd(value1, value2)),
                  shift_and_accumulate(value1),
                  shift_and_accumulate(value2))

\* sum_components
RECURSIVE sum_components(_)
sum_components(results) ==
    IF results = <<>> THEN CosResult(0, 0, 0)
    ELSE LET acc == sum_components(Tail(results))
         IN  CosResult(acc.dotprod + Head(results).dotprod,
                       acc.premag_a + Head(results).premag_a,
                       acc.premag_b + Head(results).premag_b)

\* cosine_coalesce(x, y): a panic, or the f64
\* dotprod / (sqrt(premag_a) * sqrt(premag_b)), kept as its three integers
cosine_coalesce(x, y) ==
    IF Len(x) # Len(y)
    THEN [kind |-> "panic", why |-> "Input vectors must have the same length",
          summed |-> CosResult(0, 0, 0)]
    ELSE IF \E c \in 1..Len(x) : Len(x[c]) < 16 \/ Len(y[c]) < 16
    THEN [kind |-> "panic", why |-> "index out of bounds", summed |-> CosResult(0, 0, 0)]
    ELSE [kind |-> "f64", why |-> "",
          summed |-> sum_components([c \in 1..Len(x) |->
                         compute_cosine_similarity(x[c], y[c], 16)])]

\* the vectors tried: of 16 floats per chunk, or with a last chunk of 4, the
\* sign s kept for p places, then -s for p places, and so on
Dims == {16 * c : c \in 1..MaxChunks} \cup {16 * c + 4 : c \in 0..(MaxChunks - 1)}
Pattern(d, p, s) == [k \in 1..d |-> IF ((k - 1) \div p) % 2 = 0 THEN s ELSE -s]
CosArgs == {Pattern(d, p, s) : d \in Dims, p \in {1, 2, 16, 64}, s \in {1, -1}}

CosInit ==
    /\ NoGraph
    /\ NoRecords(Num(0))
    /\ NoCalls

\* one call of cosine_coalesce(quantize(a), quantize(b))
Coalesce(a, b) ==
    /\ call = NoCall
    /\ call' = [fn |-> "cosine_coalesce", args |-> <<a, b>>,
                ret |-> cosine_coalesce(quantize(a), quantize(b))]
    /\ UNCHANGED <<collections_map, gvars, svars>>

\* ---- the packed form: floats_to_bits and cosine_sim_unsigned
\* A u32 word is [hi, lo] as above.

\* floats_to_bits: flag i of the vector is bit i % 32 of word i / 32
FlagAt(floats, i) == IF i < Len(floats) /\ floats[i + 1] >= 0 THEN 1 ELSE 0
RECURSIVE PackFrom(_, _, _)
PackFrom(floats, first, n) ==
    IF n = 0 THEN 0
    ELSE FlagAt(floats, first) + 2 * PackFrom(floats, first + 1, n - 1)
floats_to_bits(floats) ==
    [w \in 1..((Len(floats) + 31) \div 32) |->
        U32(PackFrom(floats, 32 * (w - 1) + 16, 16), PackFrom(floats, 32 * (w - 1), 16))]

\* value1 & value2 on words
BitAndU32(v, w) == U32(BitAnd(v.hi, w.hi), BitAnd(v.lo, w.lo))

\* 15 & (value >> s) on a word, s a multiple of 4
NibbleU32(w, s) == IF s >= 16 THEN Nibble(w.hi, s - 16) ELSE Nibble(w.lo, s)

\* shift_and_accumulate on a word: the shifts the function has are 0, 4, 8
\* and 12
shift_and_accumulate_u32(w) ==
    x_function(NibbleU32(w, 0)) + x_function(NibbleU32(w, 4))
        + x_function(NibbleU32(w, 8)) + x_function(NibbleU32(w, 12))

\* cosine_sim_unsigned(x, y): the f64
\* dotprod / (sqrt(premag_a) * sqrt(premag_b)), kept as its three integers
cosine_sim_unsigned(x, y) ==
    [kind |-> "f64", why |-> "",
     summed |-> sum_components(
         [k \in 1..(IF Len(x) < Len(y) THEN Len(x) ELSE Len(y)) |->
             CosResult(shift_and_accumulate_u32(BitAndU32(x[k], y[k])),
                       shift_and_accumulate_u32(x[k]),
                       shift_and_accumulate_u32(y[k]))])]

\* one call of cosine_sim_unsigned(floats_to_bits(a), floats_to_bits(b))
SimUnsigned(a, b) ==
    /\ call = NoCall
    /\ call' = [fn |-> "cosine_sim_unsigned", args |-> <<a, b>>,
                ret |-> cosine_sim_unsigned(floats_to_bits(a), floats_to_bits(b))]
    /\ UNCHANGED <<collections_map, gvars, svars>>

CosNext ==
    \E a \in CosArgs, b \in CosArgs :
        \/ Coalesce(a, b)
        \/ SimUnsigned(a, b)

SpecCos == CosInit /\ [][CosNext]_vars

\* ============================================================ index catalog
\* get_dense_index_by_name and delete_dense_index_by_name of
\* src/api/vectordb/collections/repo.rs over ctx.ain_env.collections_map.

\* --------------------------------------------------------------- bounds
\* number of distinct index handles (Arc<DenseIndex>)
MaxIndexes == 2

Names == {"a", "b", "c"}
Indexes == 1..MaxIndexes

\* the entries of a name (at most one)
EntriesOf(map, name) == {e \in map : e.name = name}
\* collections_map.get(name)
MapGet(map, name) ==
    IF EntriesOf(map, name) = {} THEN 0 ELSE (CHOOSE e \in EntriesOf(map, name) : TRUE).index
MapRemove(map, name) == map \ EntriesOf(map, name)
MapInsert(map, name, index) == MapRemove(map, name) \cup {[name |-> name, index |-> index]}

\* Result<Arc<DenseIndex>, CollectionsError>
OkIndex(index) == [kind |-> "Ok", err |-> "", index |-> index]
CollectionsError(e) == [kind |-> "Err", err |-> e, index |-> 0]

CatInit ==
    /\ NoGraph
    /\ NoRecords(Num(0))
    /\ NoCalls

\* create_dense_index: init_vector_store registers the index under its name
CreateDenseIndex(name, index) ==
    /\ collections_map' = MapInsert(collections_map, name, index)
    /\ call' = [fn |-> "create_dense_index", args |-> <<name>>, ret |-> OkIndex(index)]
    /\ UNCHANGED <<gvars, svars>>

\* get_dense_index_by_name
GetDenseIndexByName(name) ==
    /\ call' = [fn |-> "get_dense_index_by_name", args |-> <<name>>,
                ret |-> IF EntriesOf(collections_map, name) # {}
                        THEN OkIndex(MapGet(collections_map, name))
                        ELSE CollectionsError("NotFound")]
    /\ UNCHANGED <<collections_map, gvars, svars>>

\* (mutant: the entry stays in the map)
DeleteDenseIndexByName_Keep(name, failed, gone) ==
    /\ IF failed
       THEN /\ call' = [fn |-> "delete_dense_index_by_name", args |-> <<name>>,
                        ret |-> CollectionsError("WaCustomError")]
            /\ collections_map' = IF gone THEN MapRemove(collections_map, name)
                                          ELSE collections_map
       ELSE /\ call' = [fn |-> "delete_dense_index_by_name", args |-> <<name>>,
                        ret |-> IF EntriesOf(collections_map, name) # {}
                                THEN OkIndex(MapGet(collections_map, name))
                                ELSE CollectionsError("NotFound")]
            /\ collections_map' = collections_map
    /\ UNCHANGED <<gvars, svars>>

\* delete_dense_index_by_name: collections_map.remove(name) may fail, and the
\* ? operator returns that error (the entry is then gone or not); otherwise
\* Some((_, index)) gives Ok(index) and None gives NotFound
DeleteDenseIndexByName(name, failed, gone) ==
    /\ IF failed
       THEN /\ call' = [fn |-> "delete_dense_index_by_name", args |-> <<name>>,
                        ret |-> CollectionsError("WaCustomError")]
            /\ collections_map' = IF gone THEN MapRemove(collections_map, name)
                                          ELSE collections_map
       ELSE /\ call' = [fn |-> "delete_dense_index_by_name", args |-> <<name>>,
                        ret |-> IF EntriesOf(collections_map, name) # {}
                                THEN OkIndex(MapGet(collections_map, name))
                                ELSE CollectionsError("NotFound")]
            /\ collections_map' = MapRemove(collections_map, name)
    /\ UNCHANGED <<gvars, svars>>

CatNext ==
    \E name \in Names :
        \/ \E index \in Indexes : CreateDenseIndex(name, index)
        \/ GetDenseIndexByName(name)
        \/ \E failed \in BOOLEAN, gone \in BOOLEAN : DeleteDenseIndexByName(name, failed, gone)

SpecCat == CatInit /\ [][CatNext]_vars

\* ================================================================ claims
Materialized == {k \in DOMAIN cache : cache[k].state = "some"}
Desc(lst) == \A k \in 1..(Len(lst) - 1) : lst[k][2] >= lst[k + 1][2]
StrictDesc(lst) == \A k \in 1..(Len(lst) - 1) : lst[k][2] > lst[k + 1][2]
NoDup(lst) == Cardinality(IdsOf(lst)) = Len(lst)
Quiet == Started = Finished

\* C1 (as stated): every materialized node's neighbor list is strictly
\* descending by similarity, has no id twice and at most M entries.
C1_StrictShape ==
    \A k \in Materialized :
        /\ StrictDesc(cache[k].neighbors)
        /\ NoDup(cache[k].neighbors)
        /\ Len(cache[k].neighbors) <= M

\* C1 (amended): every materialized node's neighbor list is descending by
\* similarity (equal similarities may follow each other), has no id twice and
\* at most M entries.
C1_Shape ==
    \A k \in Materialized :
        /\ Desc(cache[k].neighbors)
        /\ NoDup(cache[k].neighbors)
        /\ Len(cache[k].neighbors) <= M

\* C1 witness: a list that was offered more than M edges and holds M of them,
\* two of equal similarity.
C1_Witness ==
    \E k \in Materialized :
        /\ Cardinality(applied[k]) > M
        /\ Len(cache[k].neighbors) = M
        /\ cache[k].neighbors[1][2] = cache[k].neighbors[2][2]

\* C2: in every state, every edge of a neighbor list at a level points to a
\* key of that level that is in the cache.
C2_EdgesPointIntoCache ==
    \A k \in Materialized :
        \A n \in 1..Len(cache[k].neighbors) :
            <<k[1], cache[k].neighbors[n][1]>> \in DOMAIN cache

\* C2 witness: two calls run, one has created its node and updated a
\* neighbor, which lists the new node, while its other update is pending.
C2_Witness ==
    \E i \in Inserts, j \in Inserts :
        /\ i # j
        /\ ins[i].pc = "edges" /\ pend[i] # {}
        /\ ins[j].pc \in {"trav", "edges"}
        /\ \E k \in Materialized :
              /\ k[1] = ins[i].level
              /\ k[2] # ins[i].hs
              /\ ins[i].hs \in IdsOf(cache[k].neighbors)

\* C3 (as stated): an id that is in the cache at a level l > 0 is in the
\* cache at every level 0..l, in every state.
C3_LevelMonotone ==
    \A k \in DOMAIN cache : \A l \in 0..k[1] : <<l, k[2]>> \in DOMAIN cache

\* C4 (as stated): a call that hit an invariant violation (absent key, or
\* None at a level <= max_cache_level) leaves no update: its node is at no
\* level and in no neighbor list.
C4_FailedInsertLeavesNothing ==
    \A i \in Inserts :
        (ins[i].pc = "done" /\ ins[i].err) =>
            /\ \A k \in DOMAIN cache : k[2] # ins[i].hs
            /\ \A k \in Materialized : ins[i].hs \notin IdsOf(cache[k].neighbors)

\* C5 (as stated): within one traversal each id is expanded (looked up,
\* scored, recursed into) at most once.
C5_ExpandedOnce ==
    \A i \in Inserts : \A x \in Ids : expanded[i][x] <= 1

\* C6: concurrent updates of one key lose nothing and are seen whole: in
\* every state the list of a materialized key is a best-M selection of the
\* edges it was created with plus the edges of the updates that have run
\* on it (all of them, up to M; none of the others is more similar).
IsTopM(lst, edges) ==
    /\ \A k \in 1..Len(lst) : lst[k] \in edges
    /\ NoDup(lst)
    /\ Len(lst) = (IF Cardinality(edges) < M THEN Cardinality(edges) ELSE M)
    /\ \A x \in edges : (\A k \in 1..Len(lst) : lst[k] # x) =>
            \A k \in 1..Len(lst) : lst[k][2] >= x[2]
C6_NoLostUpdate ==
    \A k \in Materialized : IsTopM(cache[k].neighbors, applied[k])

\* C6 witness: two calls update the same key at the same time; one update has
\* run, the other is pending.
C6_Witness ==
    \E i \in Inserts, j \in Inserts :
        /\ i # j
        /\ ins[i].pc = "edges" /\ ins[j].pc = "edges"
        /\ ins[i].level = ins[j].level
        /\ \E e \in pend[j] :
              /\ <<ins[j].level, e[1]>> \in Materialized
              /\ <<ins[i].hs, cosine_similarity(raw_vec(ins[i].hs), raw_vec(e[1]))>>
                     \in applied[<<ins[j].level, e[1]>>]
              /\ ins[i].hs \in IdsOf(cache[<<ins[j].level, e[1]>>].neighbors)

\* ------------------------------------------------- serializer properties
\* the four bytes of b from index k on are the little-endian form of u
Is32(b, k, u) == b[k] + 256 * b[k + 1] = u.lo /\ b[k + 2] + 256 * b[k + 3] = u.hi

\* index in a SubByte record of the length prefix of chunk k
RECURSIVE ChunkAt(_, _)
ChunkAt(s, k) == IF k = 1 THEN 11 ELSE ChunkAt(s, k - 1) + 4 + Len(s.chunks[k - 1])

\* number of bytes of the record of s
ByteLen(s) ==
    IF s.variant = "UnsignedByte" THEN 9 + Len(s.quant_vec)
    ELSE IF s.variant = "SubByte" THEN ChunkAt(s, Len(s.chunks) + 1) - 1
    ELSE 9 + 2 * Len(s.quant_vec)

\* b is the documented record of s, byte for byte
Layout(b, s) ==
    /\ Len(b) = ByteLen(s)
    /\ IF s.variant = "UnsignedByte"
       THEN /\ b[1] = 0
            /\ Is32(b, 2, s.mag)
            /\ Is32(b, 6, Num(Len(s.quant_vec)))
            /\ \A k \in 1..Len(s.quant_vec) : b[9 + k] = s.quant_vec[k]
       ELSE IF s.variant = "SubByte"
       THEN /\ b[1] = 1
            /\ b[2] = s.resolution
            /\ Is32(b, 3, s.mag)
            /\ Is32(b, 7, Num(Len(s.chunks)))
            /\ \A k \in 1..Len(s.chunks) :
                  /\ Is32(b, ChunkAt(s, k), Num(Len(s.chunks[k])))
                  /\ \A j \in 1..Len(s.chunks[k]) : b[ChunkAt(s, k) + 3 + j] = s.chunks[k][j]
       ELSE /\ b[1] = 2
            /\ Is32(b, 2, s.mag)
            /\ Is32(b, 6, Num(Len(s.quant_vec)))
            /\ \A k \in 1..Len(s.quant_vec) :
                  b[8 + 2 * k] + 256 * b[9 + 2 * k] = s.quant_vec[k]

\* the bytes the buffer holds for record k of the history
RecordBytes(k) ==
    SubSeq(buf.bytes, Index(buf, written[k].at) + 1,
           Index(buf, written[k].at) + ByteLen(written[k].storage))

\* where record k ends
EndOf(k) == Advance(written[k].at, ByteLen(written[k].storage))

\* C7: deserialize at the offset serialize returned gives back the value
\* serialized, for every variant, empty sequences included, and for records
\* written one after the other through the same cursor.
C7_RoundTrip ==
    \A k \in 1..Len(written) :
        LET res == DeserializeResult(buf, Valid(written[k].start))
        IN  res.ok /\ res.value = written[k].storage

\* C8: every record in the buffer is the documented little-endian layout of
\* its value (tag, magnitude, lengths, elements, in this order), records
\* follow one another with nothing in between or after, and
\* {mag: 42, quant_vec: [1, 2, 3]} is 00 2A 00 00 00 03 00 00 00 01 02 03.
C8_CanonicalBytes ==
    /\ SerializeBytes(ExampleStorage) = <<0, 42, 0, 0, 0, 3, 0, 0, 0, 1, 2, 3>>
    /\ \A k \in 1..Len(written) :
          /\ Layout(RecordBytes(k), written[k].storage)
          /\ written[k].at = IF k = 1 THEN buf.base ELSE EndOf(k - 1)
    /\ cursor_position = IF written = <<>> THEN buf.base ELSE EndOf(Len(written))
    /\ Index(buf, cursor_position) = Len(buf.bytes)

\* two records are in the buffer, the second a SubByte value with a chunk
\* that is not empty, after the documented example or a half-precision one
C8_Witness ==
    /\ Len(written) = 2
    /\ written[1].storage \in
          {ExampleStorage, HalfPrecisionFP(F32One, <<0, F16One>>)}
    /\ written[2].storage.variant = "SubByte"
    /\ \E k \in 1..Len(written[2].storage.chunks) : written[2].storage.chunks[k] # <<>>

\* C9: the offset serialize returns is the position its record starts at,
\* for every 64-bit position of the cursor.
C9_ReturnsStart ==
    \A k \in 1..Len(written) : written[k].start = written[k].at

\* C10: after deserialize returns, with a value or with an error, the cursor
\* it opened is closed: only the caller's cursor is open.
C10_CursorsClosed == open = {WriteCursor}

\* the deserialize call made in this step, if it is one
LastResult == result'[Len(result')]
IsDeserializeStep == Len(result') = Len(result) + 1

\* C11: deserialize of FileIndex::Invalid returns InvalidInput and opens no
\* cursor; deserialize at an offset whose first byte is not 0, 1 or 2
\* returns InvalidData; in both cases no value is produced and the buffer
\* is as it was.
C11_DeserializeErrors ==
    [][IsDeserializeStep =>
          /\ ~LastResult.file_index.valid =>
                /\ ~LastResult.res.ok
                /\ LastResult.res.err = "InvalidInput"
                /\ ~LastResult.res.opened
                /\ cursors' = cursors /\ open' = open
                /\ buf' = buf /\ cursor_position' = cursor_position
          /\ ( /\ LastResult.file_index.valid
               /\ HasBytes(buf, LastResult.file_index.offset, 1)
               /\ ByteAt(buf, LastResult.file_index.offset) \notin {0, 1, 2} ) =>
                /\ ~LastResult.res.ok
                /\ LastResult.res.err = "InvalidData"
                /\ buf' = buf /\ cursor_position' = cursor_position
      ]_vars

\* both errors have been returned: InvalidInput for Invalid, and InvalidData
\* at an offset inside a record, where the byte is no tag
C11_Witness ==
    /\ \E k \in 1..Len(result) :
          ~result[k].file_index.valid /\ result[k].res.err = "InvalidInput"
    /\ \E k \in 1..Len(result) :
          /\ result[k].file_index.valid
          /\ HasBytes(buf, result[k].file_index.offset, 1)
          /\ ByteAt(buf, result[k].file_index.offset) \notin {0, 1, 2}
          /\ result[k].res.err = "InvalidData"

\* ---------------------------------------------------- distance properties
Calculated == call.fn = "calculate"
HasKernel(x) == x.variant \in {"UnsignedByte", "HalfPrecisionFP"}

\* a == b on f32 distances: a NaN equals nothing
EqF32(a, b) == a.kind # "nan" /\ b.kind # "nan" /\ a = b
\* two calls return the same distance
SameDistance(r, q) == r.kind = "Ok" /\ q.kind = "Ok" /\ EqF32(r.value, q.value)
IsZero(r) == r.kind = "Ok" /\ r.value = [kind |-> "root", v |-> 0]

\* C12 (as stated): calculate returns a distance exactly for two
\* UnsignedByte or two HalfPrecisionFP arguments, CalculationError exactly
\* for two SubByte, StorageMismatch for two different variants, in either
\* order.
C12_VariantDispatch ==
    Calculated =>
        LET x == call.args[1]
            y == call.args[2]
        IN  /\ call.ret.kind = "Ok" <=> (x.variant = y.variant /\ HasKernel(x))
            /\ (call.ret.kind = "Err" /\ call.ret.err = "CalculationError")
                  <=> (x.variant = "SubByte" /\ y.variant = "SubByte")
            /\ x.variant # y.variant =>
                  /\ call.ret = DistanceError("StorageMismatch")
                  /\ calculate(y, x, call.args[3]) = DistanceError("StorageMismatch")

\* C13 (as stated): for x, y of one variant that has a kernel,
\* calculate(x, y) = calculate(y, x) and calculate(x, x) is zero.
C13_Symmetry ==
    (Calculated /\ call.args[1].variant = call.args[2].variant /\ HasKernel(call.args[1])) =>
        /\ SameDistance(call.ret, calculate(call.args[2], call.args[1], call.args[3]))
        /\ IsZero(calculate(call.args[1], call.args[1], call.args[3]))

\* ------------------------------------------------------ fan-out scenario
\* similarity of two ids
Sim(a, b) == cosine_similarity(raw_vec(a), raw_vec(b))
\* the five embeddings are in the graph and no call is running
FiveInserted ==
    /\ \A id \in FiveIds : <<0, id>> \in Materialized
    /\ \A i \in Inserts : ins[i].pc \in {"idle", "done"}
\* the n ids of others most similar to id
Nearest(id, others, n) ==
    {a \in others \ {id} :
        Cardinality({b \in others \ {id} : Sim(id, b) > Sim(id, a)}) < n}

\* C14 (as stated): with M = 2, after the five embeddings of pairwise
\* distinct similarity are inserted, every node's list has exactly
\* min(4, 2) = 2 entries, the two nodes most similar to it among the other
\* inserted nodes (or, counting the root as a node, among these and the
\* root).
C14_FanOut ==
    FiveInserted =>
        \A id \in FiveIds :
            /\ Len(cache[<<0, id>>].neighbors) = 2
            /\ \/ IdsOf(cache[<<0, id>>].neighbors) = Nearest(id, FiveIds, 2)
               \/ IdsOf(cache[<<0, id>>].neighbors) = Nearest(id, FiveIds \cup {Root}, 2)

\* -------------------------------------------------- quantization properties
\* a: 16 floats alternating +1, -1; b: 16 floats all +1
Alternating16 == Pattern(16, 1, 1)
Ones16 == Pattern(16, 64, 1)
CoalescedExample == call.fn = "cosine_coalesce" /\ call.args = <<Alternating16, Ones16>>

\* C15 (as stated): cosine_coalesce(quantize(a), quantize(b)) is
\* 8 / sqrt(16 * 16) = 0.5: dot = 8 and 4 * dot^2 = premag_a * premag_b.
C15_Half ==
    CoalescedExample =>
        /\ call.ret.kind = "f64"
        /\ call.ret.summed.dotprod = 8
        /\ 4 * call.ret.summed.dotprod * call.ret.summed.dotprod
              = call.ret.summed.premag_a * call.ret.summed.premag_b

\* C15 (amended): the result is 8 / sqrt(8 * 16), about 0.7071: dot = 8,
\* premag_a = 8 (the flags set in a), premag_b = 16, so that
\* 2 * dot^2 = premag_a * premag_b.
C15_RootHalf ==
    CoalescedExample =>
        /\ call.ret.kind = "f64"
        /\ call.ret.summed = CosResult(8, 8, 16)
        /\ 2 * call.ret.summed.dotprod * call.ret.summed.dotprod
              = call.ret.summed.premag_a * call.ret.summed.premag_b

\* the example has been computed
C15_Witness == CoalescedExample /\ call.ret.kind = "f64"

\* -------------------------------------------------------- catalog properties
Present(name) == EntriesOf(collections_map, name) # {}
OthersKept(name) ==
    \A e \in collections_map \cup collections_map' :
        e.name # name => (e \in collections_map <=> e \in collections_map')
IsCall(fn, name) == call'.fn = fn /\ call'.args = <<name>> /\ pvars' # pvars

GetContract(name) ==
    /\ collections_map' = collections_map
    /\ call'.ret = IF Present(name) THEN OkIndex(MapGet(collections_map, name))
                                    ELSE CollectionsError("NotFound")
DeleteContract(name) ==
    /\ OthersKept(name)
    /\ IF Present(name)
       THEN /\ call'.ret = OkIndex(MapGet(collections_map, name))
            /\ collections_map' = MapRemove(collections_map, name)
            /\ EntriesOf(collections_map', name) = {}
       ELSE /\ call'.ret = CollectionsError("NotFound")
            /\ collections_map' = collections_map

\* C16 (as stated): get returns the handle of a present name and NotFound
\* otherwise, and never changes the map; delete removes the entry of a present
\* name and returns its handle, and returns NotFound with the map unchanged
\* otherwise; after a successful delete the name is absent (so get and delete
\* give NotFound); other names are unaffected.
C16_Catalog ==
    [][\A name \in Names :
          /\ IsCall("get_dense_index_by_name", name) => GetContract(name)
          /\ IsCall("delete_dense_index_by_name", name) => DeleteContract(name)]_vars

\* C16 (amended): as above, except that delete may also fail with
\* WaCustomError, the error of the catalog's own remove; nothing is then
\* promised about the entry of that name, and other names are unaffected.
C16_CatalogOrError ==
    [][\A name \in Names :
          /\ IsCall("get_dense_index_by_name", name) => GetContract(name)
          /\ IsCall("delete_dense_index_by_name", name) =>
                \/ DeleteContract(name)
                \/ call'.ret = CollectionsError("WaCustomError") /\ OthersKept(name)]_vars

\* a delete has returned the handle of its name; another name is still there
C16_Witness ==
    /\ call.fn = "delete_dense_index_by_name"
    /\ call.ret.kind = "Ok"
    /\ EntriesOf(collections_map, call.args[1]) = {}
    /\ collections_map # {}

\* --------------------------------------------------- insert level properties
\* the keys whose entry a step changed or created
Touched == {k \in DOMAIN cache' : Get(cache, k) # cache'[k]}

Joining(i) == ins[i].pc = "trav" /\ ChildrenDone(trav[i], <<>>, ins[i].kids)
\* what it returns
TraverseResult(i) == Aggregate(ChildRes(trav[i], <<>>, ins[i].kids))
\* the nodes it scored (cosine_similarity was computed for them)
Scored(i) == {x \in Ids : expanded[i][x] > 0}
Min(a, b) == IF a < b THEN a ELSE b

\* C18: the result of traverse_find_nearest is the K_search = 2 most similar
\* of all nodes scored during the traversal (all of them when fewer were
\* scored), each with its similarity, sorted by descending similarity, no id
\* twice and never self_id; no scored node left out is more similar than
\* one returned (so truncating the sub-results lost nothing).
C18_TopOfScored ==
    \A i \in Inserts :
        Joining(i) =>
            LET z == TraverseResult(i)
            IN  /\ Len(z) = Min(K_search, Cardinality(Scored(i)))
                /\ Desc(z)
                /\ NoDup(z)
                /\ ins[i].hs \notin IdsOf(z)
                /\ \A k \in 1..Len(z) :
                      /\ z[k][1] \in Scored(i)
                      /\ z[k][2] = Sim(ins[i].hs, z[k][1])
                /\ \A x \in Scored(i) \ IdsOf(z) :
                      \A k \in 1..Len(z) : Sim(ins[i].hs, x) <= z[k][2]

\* a traversal that scored at least four nodes, two of them below the first
\* hop, is about to return its two entries
C18_Witness ==
    \E i \in Inserts :
        /\ Joining(i)
        /\ Cardinality(Scored(i)) >= 4
        /\ Cardinality(Scored(i) \ {ins[i].kids[k] : k \in 1..Len(ins[i].kids)}) >= 2
        /\ Len(TraverseResult(i)) = K_search

\* ------------------------------------------------------------- termination
\* C19: every call of insert_embedding that was started ends (it returns, or
\* it unwinds), under fair scheduling of the call and of its tasks.
C19_Terminates ==
    \A i \in Inserts : (ins[i].pc # "idle") ~> (ins[i].pc \in {"done", "panicked"})

\* ------------------------------------------------- join of the edge updates
\* the candidates insert_node_create_edges of call i was given
Candidates(i) == {ins[i].zs[ins[i].level][k] : k \in 1..Len(ins[i].zs[ins[i].level])}
\* every materialized candidate has been offered the new node
AllOffered(i) ==
    \A e \in Candidates(i) :
        Get(cache, <<ins[i].level, e[1]>>).state = "some" =>
            <<ins[i].hs, e[2]>> \in applied[<<ins[i].level, e[1]>>]

\* C20: insert_node_create_edges returns only when every update it spawned
\* has run, each materialized candidate having been offered (new_id, cs);
\* an update of the call runs only before the return, and none is left
\* after it.
C20_JoinAfterUpdates ==
    [][\A i \in Inserts :
          /\ (ins[i].pc = "edges" /\ ins'[i].pc # "edges") => (pend[i] = {} /\ AllOffered(i))
          /\ pend'[i] # pend[i] => ins'[i].pc = "edges"
          /\ ins'[i].pc # "edges" => pend'[i] = {}]_vars

\* a call with two candidates is about to return: both updates have run
C20_Witness ==
    \E i \in Inserts :
        /\ ins[i].pc = "edges"
        /\ pend[i] = {}
        /\ Cardinality(Candidates(i)) = 2
        /\ \A e \in Candidates(i) :
              /\ <<ins[i].hs, e[2]>> \in applied[<<ins[i].level, e[1]>>]
              /\ ins[i].hs \in IdsOf(cache[<<ins[i].level, e[1]>>].neighbors)

\* ------------------------------------------ frame of insert_node_create_edges
\* the keys of the candidates of call i at its level
CandidateKeys(i) == {<<ins[i].level, e[1]>> : e \in Candidates(i)}

\* C21: insert_node_create_edges(new_id, candidates, level) changes only the
\* key (level, new_id) and the neighbor lists of candidate keys of that
\* level: an updated candidate keeps its payload and its guard, a key that
\* is absent or None stays so, and no other key changes.
C21_Frame ==
    [][cache' # cache =>
          \E i \in Inserts :
              /\ ins[i].pc \in {"ret", "edges"}
              /\ Touched \subseteq {<<ins[i].level, ins[i].hs>>} \cup CandidateKeys(i)
              /\ \A k \in Touched \ {<<ins[i].level, ins[i].hs>>} :
                    /\ Get(cache, k).state = "some"
                    /\ cache'[k].state = "some"
                    /\ cache'[k].vector_list = cache[k].vector_list
                    /\ cache'[k].mv = cache[k].mv]_vars

\* the updates of a call have run: a candidate lists the new node and still
\* has its own payload and guard, and the new node is in the cache
C21_Witness ==
    \E i \in Inserts :
        /\ ins[i].pc = "edges"
        /\ pend[i] = {}
        /\ <<ins[i].level, ins[i].hs>> \in DOMAIN cache
        /\ \E k \in CandidateKeys(i) :
              /\ ins[i].hs \in IdsOf(cache[k].neighbors)
              /\ cache[k].vector_list = raw_vec(k[2])
              /\ cache[k].mv = <<k[2], k[1]>>

\* ------------------------------------------------- squared differences of u8
\* the exact sum of the squared differences of two byte vectors, as an f32
ExactSquares(x, y) ==
    SumF32([k \in 1..Len(Zip(x, y)) |->
               Fin(4 * (Zip(x, y)[k][1] - Zip(x, y)[k][2]) * (Zip(x, y)[k][1] - Zip(x, y)[k][2]))])

\* C22: euclidean_distance_u8 squares every difference exactly, without
\* overflow of the i16 intermediate: for two UnsignedByte arguments the call
\* returns the root of the exact sum of the squared differences.
C22_ExactSquares ==
    (Calculated /\ call.args[1].variant = "UnsignedByte"
                /\ call.args[2].variant = "UnsignedByte") =>
        call.ret = OkDistance(SqrtF32(ExactSquares(call.args[1].quant_vec,
                                                   call.args[2].quant_vec)))

\* -------------------------------------------------------------- orphan nodes
\* the keys of level l, other than that of id, whose list names id
ListedBy(c, l, id) ==
    {k \in DOMAIN c : k[1] = l /\ k[2] # id /\ c[k].state = "some"
                      /\ id \in IdsOf(c[k].neighbors)}

\* C23: when insert_node_create_edges returns, having been given at least
\* one candidate, some other node of that level lists the new node.
C23_NoOrphan ==
    [][\A i \in Inserts :
          (ins[i].pc = "edges" /\ ins'[i].pc # "edges" /\ Candidates(i) # {}) =>
              ListedBy(cache, ins[i].level, ins[i].hs) # {}]_vars

\* ------------------------------------------------ interleaving independence
\* C24: for one cache, start node, probe and level, traverse_find_nearest
\* scores the same nodes and returns the same list whatever the order in
\* which its tasks run: two runs that are both about to return agree.
C24_SameResult ==
    (Joining(1) /\ Joining(2)) =>
        /\ Scored(1) = Scored(2)
        /\ TraverseResult(1) = TraverseResult(2)

\* ------------------------------------------------------- chunks of 16 flags
\* the two arguments of the call have the same dimension
EqualDims == call.fn = "cosine_coalesce" /\ Len(call.args[1]) = Len(call.args[2])

\* C25: for two vectors of equal dimension, also one that is no multiple of
\* 16, cosine_coalesce(quantize(a), quantize(b)) completes: no chunk that
\* reaches bits_to_integer with size 16 has fewer than 16 entries.
C25_NoOutOfBounds ==
    EqualDims =>
        /\ call.ret.kind = "f64"
        /\ \A c \in 1..Len(quantize(call.args[1])) :
              /\ bits_to_integer(quantize(call.args[1])[c], 16) # "oob"
              /\ bits_to_integer(quantize(call.args[2])[c], 16) # "oob"

\* ------------------------------------------------------- set bits of a word
\* the number of set bits
RECURSIVE Popcount(_)
Popcount(n) == IF n = 0 THEN 0 ELSE (n % 2) + Popcount(n \div 2)
PopcountU32(w) == Popcount(w.hi) + Popcount(w.lo)
\* the sums over the words of two packed vectors
PopcountSums(x, y) ==
    sum_components([k \in 1..(IF Len(x) < Len(y) THEN Len(x) ELSE Len(y)) |->
        CosResult(PopcountU32(BitAndU32(x[k], y[k])), PopcountU32(x[k]), PopcountU32(y[k]))])

\* C26: shift_and_accumulate counts the set bits of every 32-bit word, so
\* cosine_sim_unsigned on the words of floats_to_bits accumulates
\* dot = popcount(x & y), premag_a = popcount(x), premag_b = popcount(y) over
\* all flags, those in bits 16 to 31 included.
C26_Popcount ==
    call.fn = "cosine_sim_unsigned" =>
        LET x == floats_to_bits(call.args[1])
            y == floats_to_bits(call.args[2])
        IN  /\ \A k \in 1..Len(x) : shift_and_accumulate_u32(x[k]) = PopcountU32(x[k])
            /\ call.ret.summed = PopcountSums(x, y)

================================================================
